---- MODULE Spec2Model ----
(***************************************************************************)
(* Model of the three synchronisation primitives of async-named-locker:    *)
(*   - LockerManager / Locker      (src/src/object_locker.rs)              *)
(*   - ObjectHolder / ObjectGuard  (src/src/object_holder.rs)              *)
(*   - NamedStateHolder / Guard    (src/src/named_state.rs)                *)
(* Every critical section (the code between Mutex::lock() and the end of   *)
(* the block) is one atomic action.  A NotifyFuture is identified by the   *)
(* task that created it: a task has at most one outstanding future.        *)
(***************************************************************************)
EXTENDS Naturals, Sequences, FiniteSets, TLC

\* ---------------------------------------------------------------- bounds
NumTasks == 4
NumNames == 2
NumValues == 2
NumGuards == 3
MaxIds == 4

Tasks == 1..NumTasks
Names == 1..NumNames
Values == 1..NumValues
GuardSlots == 1..NumGuards

\* Option::None, and "no locker_id" for a task that is not inside get_locker.
None == 0
NoName == 0
NoGuard == [name |-> NoName, id |-> 0]

VARIABLES
    \* --- object_locker.rs
    locker_map,     \* HashMap<String, LockerState>: function on a subset of Names
    lk_pc,          \* per task: "idle" | "waiting" (at future.await) | "owner" (has a Locker)
                    \*           | "abandoned" (discarded while suspended at future.await)
    lk_id,          \* per task: the locker_id of its get_locker call / Locker
    lk_done,        \* per task: set_complete(()) was called on its NotifyFuture
    lk_failed,      \* assert!(false) in unlock was hit
    lk_arrival,     \* history: per name, waiters in the order lock() pushed them
    go_obj,         \* per task: GuardObject.obj of the GuardObject around its Locker, or None
    go_ret,         \* the payload the last release_locker() returned, or None
    lk_raw,         \* history: the names unlock was called for directly while they had no entry
    \* --- object_holder.rs
    state_obj,      \* ObjectHolderState.obj: Option<T>
    waiter_list,    \* ObjectHolderState.waiter_list: Vec<NotifyFuture<T>>
    oh_pc,          \* per task: "idle" | "waiting" (at waiter.await) | "guard" (has an ObjectGuard)
                    \*           | "abandoned" (discarded while suspended at waiter.await)
    guard_obj,      \* per task: ObjectGuard.obj: Option<T>
    fut_val,        \* per task: value delivered by set_complete(obj), not yet awaited
    oh_arrival,     \* history: waiters in the order get() pushed them
    oh_value,       \* history: the value given to ObjectHolder::new, or last written through a guard
    \* --- named_state.rs
    names,          \* State.names: HashMap<N, Vec<u64>>: function on a subset of Names
    id_seq,         \* State.id_seq
    ns_seed,        \* history: the value id_seq was seeded with
    ns_guard,       \* per slot: a live NamedStateGuard [name, id], or NoGuard
    ns_alive        \* some Arc<NamedStateHolder> exists: Weak::upgrade() succeeds

lk_vars == <<locker_map, lk_pc, lk_id, lk_done, lk_failed, lk_arrival, go_obj, go_ret, lk_raw>>
oh_vars == <<state_obj, waiter_list, oh_pc, guard_obj, fut_val, oh_arrival, oh_value>>
ns_vars == <<names, id_seq, ns_seed, ns_guard, ns_alive>>
vars == <<lk_vars, oh_vars, ns_vars>>

\* ------------------------------------------------------------- helpers
EmptyMap == [n \in {} |-> None]

\* HashMap::insert / entry().or_insert on a map modelled as a function.
\* Faulty variant: the map is replaced by one that holds the new entry only.
MapPut_only(m, k, v) == [x \in {k} |-> v]
MapPut(m, k, v) == [x \in (DOMAIN m) \cup {k} |-> IF x = k THEN v ELSE m[x]]

Last(s) == s[Len(s)]
Front(s) == SubSeq(s, 1, Len(s) - 1)

\* Vec::remove(i) on a 1-based sequence.
RemoveAt(s, i) == SubSeq(s, 1, i - 1) \o SubSeq(s, i + 1, Len(s))

\* =================================================== object_locker.rs
\* The waiter `pending_list.remove(0)` takes: index 0 of the Vec, 1 here.
\* Faulty variant: the last waiter is taken instead of the first.
unlock_index_last(list) == Len(list)
unlock_index(list) == 1

\* lock(), the branch taken when the entry exists (lines 38-47): the new
\* LockerState, and whether the caller goes on to `future.await`.
\* Faulty variant: the waiter is pushed at the front of pending_list.
lock_entry_front(state, f) ==
    IF state.is_locked
    THEN [state |-> [state EXCEPT !.pending_list = <<f>> \o @], suspended |-> TRUE]
    ELSE [state |-> [state EXCEPT !.is_locked = TRUE], suspended |-> FALSE]
\* Faulty variant: a free entry is granted without being marked locked.
lock_entry_unmarked(state, f) ==
    IF state.is_locked
    THEN [state |-> [state EXCEPT !.pending_list = Append(@, f)], suspended |-> TRUE]
    ELSE [state |-> state, suspended |-> FALSE]
lock_entry(state, f) ==
    IF state.is_locked
    THEN [state |-> [state EXCEPT !.pending_list = Append(@, f)], suspended |-> TRUE]
    ELSE [state |-> [state EXCEPT !.is_locked = TRUE], suspended |-> FALSE]

\* unlock(), the branch taken when the entry exists (lines 59-65): the new
\* LockerState and the set of futures set_complete(()) was called on.
\* Faulty variant: is_locked is cleared also when a waiter is woken.
unlock_entry_unmark(state) ==
    IF Len(state.pending_list) > 0
    THEN [state |-> [is_locked |-> FALSE,
                     pending_list |-> RemoveAt(state.pending_list, unlock_index(state.pending_list))],
          woken |-> {state.pending_list[unlock_index(state.pending_list)]}]
    ELSE [state |-> [state EXCEPT !.is_locked = FALSE], woken |-> {}]
\* Faulty variant: the woken waiter is left in pending_list.
unlock_entry_keep(state) ==
    IF Len(state.pending_list) > 0
    THEN [state |-> state,
          woken |-> {state.pending_list[unlock_index(state.pending_list)]}]
    ELSE [state |-> [state EXCEPT !.is_locked = FALSE], woken |-> {}]
unlock_entry(state) ==
    IF Len(state.pending_list) > 0
    THEN [state |-> [state EXCEPT !.pending_list = RemoveAt(@, unlock_index(@))],
          woken |-> {state.pending_list[unlock_index(state.pending_list)]}]
    ELSE [state |-> [state EXCEPT !.is_locked = FALSE], woken |-> {}]

\* LockerManager::lock as called from Locker::get_locker, up to its first
\* suspension point or its return (the Locker is then constructed).
\* Once assert!(false) has fired inside unlock the table's Mutex is poisoned:
\* `locker_map.lock().unwrap()` panics before it touches the table.
\* Faulty variant: an existing entry counts as locked while any name is locked.
get_locker_global(t, n) ==
    /\ lk_pc[t] = "idle"
    /\ ~lk_failed
    /\ IF n \notin DOMAIN locker_map
       THEN /\ locker_map' = MapPut(locker_map, n, [is_locked |-> TRUE, pending_list |-> <<>>])
            /\ lk_pc' = [lk_pc EXCEPT ![t] = "owner"]
            /\ UNCHANGED lk_arrival
       ELSE LET anyLocked == \E m \in DOMAIN locker_map : locker_map[m].is_locked
                r == lock_entry([locker_map[n] EXCEPT !.is_locked = anyLocked], t) IN
            /\ locker_map' = [locker_map EXCEPT ![n] = r.state]
            /\ lk_pc' = [lk_pc EXCEPT ![t] = IF r.suspended THEN "waiting" ELSE "owner"]
            /\ lk_arrival' = IF r.suspended
                             THEN [lk_arrival EXCEPT ![n] = Append(@, t)]
                             ELSE lk_arrival
    /\ lk_id' = [lk_id EXCEPT ![t] = n]
    /\ UNCHANGED <<lk_done, lk_failed, go_obj, go_ret, lk_raw>>
    /\ UNCHANGED <<oh_vars, ns_vars>>
get_locker(t, n) ==
    /\ lk_pc[t] = "idle"
    /\ ~lk_failed
    /\ IF n \notin DOMAIN locker_map
       THEN /\ locker_map' = MapPut(locker_map, n, [is_locked |-> TRUE, pending_list |-> <<>>])
            /\ lk_pc' = [lk_pc EXCEPT ![t] = "owner"]
            /\ UNCHANGED lk_arrival
       ELSE LET r == lock_entry(locker_map[n], t) IN
            /\ locker_map' = [locker_map EXCEPT ![n] = r.state]
            /\ lk_pc' = [lk_pc EXCEPT ![t] = IF r.suspended THEN "waiting" ELSE "owner"]
            /\ lk_arrival' = IF r.suspended
                             THEN [lk_arrival EXCEPT ![n] = Append(@, t)]
                             ELSE lk_arrival
    /\ lk_id' = [lk_id EXCEPT ![t] = n]
    /\ UNCHANGED <<lk_done, lk_failed, go_obj, go_ret, lk_raw>>
    /\ UNCHANGED <<oh_vars, ns_vars>>

\* `future.await` returns once set_complete(()) was called; get_locker then
\* builds the Locker.
locker_resume(t) ==
    /\ lk_pc[t] = "waiting"
    /\ lk_done[t]
    /\ lk_pc' = [lk_pc EXCEPT ![t] = "owner"]
    /\ lk_done' = [lk_done EXCEPT ![t] = FALSE]
    /\ UNCHANGED <<locker_map, lk_id, lk_failed, lk_arrival, go_obj, go_ret, lk_raw>>
    /\ UNCHANGED <<oh_vars, ns_vars>>

\* LockerManager::unlock.
\* Faulty variant: an unknown name is ignored, the assertion is missing.
unlock_silent(n) ==
    IF n \in DOMAIN locker_map
    THEN LET r == unlock_entry(locker_map[n]) IN
         /\ locker_map' = [locker_map EXCEPT ![n] = r.state]
         /\ lk_done' = [u \in Tasks |-> lk_done[u] \/ u \in r.woken]
         /\ lk_arrival' = [lk_arrival EXCEPT
                             ![n] = SelectSeq(@, LAMBDA u : u \notin r.woken)]
         /\ UNCHANGED lk_failed
    ELSE UNCHANGED <<locker_map, lk_done, lk_arrival, lk_failed>>
unlock(n) ==
    IF n \in DOMAIN locker_map
    THEN LET r == unlock_entry(locker_map[n]) IN
         /\ locker_map' = [locker_map EXCEPT ![n] = r.state]
         /\ lk_done' = [u \in Tasks |-> lk_done[u] \/ u \in r.woken]
         /\ lk_arrival' = [lk_arrival EXCEPT
                             ![n] = SelectSeq(@, LAMBDA u : u \notin r.woken)]
         /\ UNCHANGED lk_failed
    ELSE /\ lk_failed' = TRUE
         /\ UNCHANGED <<locker_map, lk_done, lk_arrival>>

\* Drop for Locker, on its own or as the field of a dropped GuardObject
\* (whose payload is dropped with it).
locker_drop(t) ==
    /\ lk_pc[t] = "owner"
    /\ ~lk_failed
    /\ unlock(lk_id[t])
    /\ lk_pc' = [lk_pc EXCEPT ![t] = "idle"]
    /\ lk_id' = [lk_id EXCEPT ![t] = NoName]
    /\ go_obj' = [go_obj EXCEPT ![t] = None]
    /\ UNCHANGED <<go_ret, lk_raw>>
    /\ UNCHANGED <<oh_vars, ns_vars>>

\* The payloads a GuardObject is given: two values of its type T.
Payloads == {1, 2}

\* The task is discarded while it is suspended at `future.await`: its
\* get_locker future is dropped and never polled again.  The clone of the
\* NotifyFuture that lock() pushed stays in pending_list; a completion
\* already signalled to the task is dropped with its future.
locker_abandon(t) ==
    /\ lk_pc[t] = "waiting"
    /\ lk_pc' = [lk_pc EXCEPT ![t] = "abandoned"]
    /\ lk_done' = [lk_done EXCEPT ![t] = FALSE]
    /\ UNCHANGED <<locker_map, lk_id, lk_failed, lk_arrival, go_obj, go_ret, lk_raw>>
    /\ UNCHANGED <<oh_vars, ns_vars>>

\* GuardObject::new(locker, v): the task wraps its Locker and a payload.
guard_object_new(t, v) ==
    /\ lk_pc[t] = "owner"
    /\ go_obj[t] = None
    /\ go_obj' = [go_obj EXCEPT ![t] = v]
    /\ UNCHANGED <<locker_map, lk_pc, lk_id, lk_done, lk_failed, lk_arrival, go_ret, lk_raw>>
    /\ UNCHANGED <<oh_vars, ns_vars>>

\* DerefMut for GuardObject: the task overwrites the payload.
guard_object_deref_mut(t, v) ==
    /\ lk_pc[t] = "owner"
    /\ go_obj[t] # None
    /\ go_obj' = [go_obj EXCEPT ![t] = v]
    /\ UNCHANGED <<locker_map, lk_pc, lk_id, lk_done, lk_failed, lk_arrival, go_ret, lk_raw>>
    /\ UNCHANGED <<oh_vars, ns_vars>>

\* GuardObject::release_locker(self): `self.obj` is moved out and returned,
\* the rest of self, the Locker, is dropped at the end of the call.
\* Faulty variant: the Locker is leaked instead of dropped, unlock never runs.
release_locker_leak(t) ==
    /\ lk_pc[t] = "owner"
    /\ go_obj[t] # None
    /\ ~lk_failed
    /\ go_ret' = go_obj[t]
    /\ go_obj' = [go_obj EXCEPT ![t] = None]
    /\ lk_pc' = [lk_pc EXCEPT ![t] = "idle"]
    /\ lk_id' = [lk_id EXCEPT ![t] = NoName]
    /\ UNCHANGED <<locker_map, lk_done, lk_failed, lk_arrival, lk_raw>>
    /\ UNCHANGED <<oh_vars, ns_vars>>
release_locker(t) ==
    /\ lk_pc[t] = "owner"
    /\ go_obj[t] # None
    /\ ~lk_failed
    /\ go_ret' = go_obj[t]
    /\ go_obj' = [go_obj EXCEPT ![t] = None]
    /\ unlock(lk_id[t])
    /\ lk_pc' = [lk_pc EXCEPT ![t] = "idle"]
    /\ lk_id' = [lk_id EXCEPT ![t] = NoName]
    /\ UNCHANGED lk_raw
    /\ UNCHANGED <<oh_vars, ns_vars>>

\* LockerManager::unlock called directly, by no Locker, for any name.
unlock_call(n) ==
    /\ ~lk_failed
    /\ unlock(n)
    /\ lk_raw' = IF n \in DOMAIN locker_map THEN lk_raw ELSE lk_raw \cup {n}
    /\ UNCHANGED <<lk_pc, lk_id, go_obj, go_ret>>
    /\ UNCHANGED <<oh_vars, ns_vars>>

LockerInit ==
    /\ locker_map = EmptyMap
    /\ lk_pc = [t \in Tasks |-> "idle"]
    /\ lk_id = [t \in Tasks |-> NoName]
    /\ lk_done = [t \in Tasks |-> FALSE]
    /\ lk_failed = FALSE
    /\ lk_arrival = [n \in Names |-> <<>>]
    /\ go_obj = [t \in Tasks |-> None]
    /\ go_ret = None
    /\ lk_raw = {}

LockerNext ==
    \/ \E t \in Tasks, n \in Names : get_locker(t, n)
    \/ \E t \in Tasks : locker_resume(t)
    \/ \E t \in Tasks : locker_drop(t)

\* =================================================== object_holder.rs
\* The waiter `waiter_list.pop()` takes: the last element of the Vec.
\* Faulty variant: the first waiter is taken instead of the last.
release_index_first(list) == 1
release_index(list) == Len(list)

\* get(), the critical section (lines 69-75): the new obj slot and waiter
\* list, and the value taken (None when the caller pushed a waiter instead).
\* Faulty variant: the value is copied out and stays in the slot.
get_entry_copy(obj, list, f) ==
    IF obj # None
    THEN [obj |-> obj, list |-> list, got |-> obj]
    ELSE [obj |-> None, list |-> Append(list, f), got |-> None]
get_entry(obj, list, f) ==
    IF obj # None
    THEN [obj |-> None, list |-> list, got |-> obj]
    ELSE [obj |-> None, list |-> Append(list, f), got |-> None]

\* release(obj), lines 83-88: the new obj slot and waiter list, and the
\* set of futures set_complete(obj) was called on.
\* Faulty variant: the value is rested in the slot also when a waiter is woken.
release_entry_rest(cur, list, obj) ==
    IF Len(list) > 0
    THEN [obj |-> obj, list |-> RemoveAt(list, release_index(list)),
          woken |-> {list[release_index(list)]}]
    ELSE [obj |-> obj, list |-> list, woken |-> {}]
release_entry(cur, list, obj) ==
    IF Len(list) > 0
    THEN [obj |-> cur, list |-> RemoveAt(list, release_index(list)),
          woken |-> {list[release_index(list)]}]
    ELSE [obj |-> obj, list |-> list, woken |-> {}]

\* ObjectHolder::get up to its first suspension point or its return.
get(t) ==
    /\ oh_pc[t] = "idle"
    /\ LET r == get_entry(state_obj, waiter_list, t) IN
       /\ state_obj' = r.obj
       /\ waiter_list' = r.list
       /\ IF r.got # None
          THEN /\ guard_obj' = [guard_obj EXCEPT ![t] = r.got]
               /\ oh_pc' = [oh_pc EXCEPT ![t] = "guard"]
               /\ UNCHANGED oh_arrival
          ELSE /\ oh_pc' = [oh_pc EXCEPT ![t] = "waiting"]
               /\ oh_arrival' = Append(oh_arrival, t)
               /\ UNCHANGED guard_obj
    /\ UNCHANGED <<fut_val, oh_value>>
    /\ UNCHANGED <<lk_vars, ns_vars>>

\* `waiter.await` returns the delivered value; get wraps it in an ObjectGuard.
holder_resume(t) ==
    /\ oh_pc[t] = "waiting"
    /\ fut_val[t] # None
    /\ guard_obj' = [guard_obj EXCEPT ![t] = fut_val[t]]
    /\ fut_val' = [fut_val EXCEPT ![t] = None]
    /\ oh_pc' = [oh_pc EXCEPT ![t] = "guard"]
    /\ UNCHANGED <<state_obj, waiter_list, oh_arrival, oh_value>>
    /\ UNCHANGED <<lk_vars, ns_vars>>

\* ObjectHolder::release.
release(obj) ==
    LET r == release_entry(state_obj, waiter_list, obj) IN
    /\ state_obj' = r.obj
    /\ waiter_list' = r.list
    /\ fut_val' = [u \in Tasks |-> IF u \in r.woken THEN obj ELSE fut_val[u]]
    /\ oh_arrival' = SelectSeq(oh_arrival, LAMBDA u : u \notin r.woken)

\* Drop for ObjectGuard: `self.obj.take()`, then release(obj) when it was Some.
guard_drop(t) ==
    /\ oh_pc[t] = "guard"
    /\ guard_obj' = [guard_obj EXCEPT ![t] = None]
    /\ IF guard_obj[t] # None
       THEN release(guard_obj[t])
       ELSE UNCHANGED <<state_obj, waiter_list, fut_val, oh_arrival>>
    /\ oh_pc' = [oh_pc EXCEPT ![t] = "idle"]
    /\ UNCHANGED oh_value
    /\ UNCHANGED <<lk_vars, ns_vars>>

\* DerefMut for ObjectGuard: the holder of the guard overwrites the value.
deref_mut(t, v) ==
    /\ oh_pc[t] = "guard"
    /\ guard_obj[t] # None
    /\ guard_obj' = [guard_obj EXCEPT ![t] = v]
    /\ oh_value' = v
    /\ UNCHANGED <<state_obj, waiter_list, oh_pc, fut_val, oh_arrival>>
    /\ UNCHANGED <<lk_vars, ns_vars>>

\* The task is discarded while it is suspended at `waiter.await`: its get()
\* future is dropped and never polled again.  The clone of the NotifyFuture
\* that get() pushed stays in waiter_list; a value already delivered to the
\* task is dropped with its future.
holder_abandon(t) ==
    /\ oh_pc[t] = "waiting"
    /\ oh_pc' = [oh_pc EXCEPT ![t] = "abandoned"]
    /\ fut_val' = [fut_val EXCEPT ![t] = None]
    /\ UNCHANGED <<state_obj, waiter_list, guard_obj, oh_arrival, oh_value>>
    /\ UNCHANGED <<lk_vars, ns_vars>>

\* ObjectHolder::new(v).
HolderInit(v) ==
    /\ state_obj = v
    /\ waiter_list = <<>>
    /\ oh_pc = [t \in Tasks |-> "idle"]
    /\ guard_obj = [t \in Tasks |-> None]
    /\ fut_val = [t \in Tasks |-> None]
    /\ oh_arrival = <<>>
    /\ oh_value = v

HolderNext ==
    \/ \E t \in Tasks : get(t)
    \/ \E t \in Tasks : holder_resume(t)
    \/ \E t \in Tasks : guard_drop(t)
    \/ \E t \in Tasks, v \in Values : deref_mut(t, v)

\* ===================================================== named_state.rs
\* Values the wall clock can seed id_seq with (line 33).
Seeds == {3, 11}

\* `state.id_seq += 1` (line 41).
\* Faulty variant: the counter is not advanced.
next_id_same(seq) == seq
next_id(seq) == seq + 1

\* `list.retain(|&x| x != id)` (line 63).
\* Faulty variant: the whole list is cleared.
retain_none(list, id) == <<>>
retain(list, id) == SelectSeq(list, LAMBDA x : x # id)

\* `state.names.entry(name).or_insert(vec![])`: the list the entry holds.
entry_or_insert(n) == IF n \in DOMAIN names THEN names[n] ELSE <<>>

\* NamedStateHolder::has_state.
has_state(n) == IF n \in DOMAIN names THEN Len(names[n]) > 0 ELSE FALSE

\* NamedStateHolder::new_state; the guard it returns is kept in slot g.
new_state(g, n) ==
    /\ ns_alive
    /\ ns_guard[g] = NoGuard
    /\ id_seq < ns_seed + MaxIds
    /\ id_seq' = next_id(id_seq)
    /\ names' = MapPut(names, n, Append(entry_or_insert(n), id_seq))
    /\ ns_guard' = [ns_guard EXCEPT ![g] = [name |-> n, id |-> id_seq]]
    /\ UNCHANGED <<ns_seed, ns_alive>>
    /\ UNCHANGED <<lk_vars, oh_vars>>

\* NamedStateHolder::release_state.
release_state(n, id) ==
    names' = MapPut(names, n, retain(entry_or_insert(n), id))

\* `self.holder.upgrade()` (line 14): Some exactly while the holder is alive.
\* Faulty variant: the liveness of the holder is not checked.
upgrade_always(alive) == TRUE
upgrade(alive) == alive

\* Drop for NamedStateGuard.
state_guard_drop(g) ==
    /\ ns_guard[g] # NoGuard
    /\ IF upgrade(ns_alive)
       THEN release_state(ns_guard[g].name, ns_guard[g].id)
       ELSE UNCHANGED names
    /\ ns_guard' = [ns_guard EXCEPT ![g] = NoGuard]
    /\ UNCHANGED <<id_seq, ns_seed, ns_alive>>
    /\ UNCHANGED <<lk_vars, oh_vars>>

\* The last Arc<NamedStateHolder> is dropped.  The State is freed with it;
\* names and id_seq keep its last contents, which nothing may touch again.
holder_teardown ==
    /\ ns_alive
    /\ ns_alive' = FALSE
    /\ UNCHANGED <<names, id_seq, ns_seed, ns_guard>>
    /\ UNCHANGED <<lk_vars, oh_vars>>

\* NamedStateHolder::new() at wall-clock value s.
NamedStateInit(s) ==
    /\ names = EmptyMap
    /\ id_seq = s
    /\ ns_seed = s
    /\ ns_guard = [g \in GuardSlots |-> NoGuard]
    /\ ns_alive = TRUE

NamedStateNext ==
    \/ \E g \in GuardSlots, n \in Names : new_state(g, n)
    \/ \E g \in GuardSlots : state_guard_drop(g)

\* ====================================================== specifications
Init ==
    /\ LockerInit
    /\ \E v \in Values : HolderInit(v)
    /\ \E s \in Seeds : NamedStateInit(s)

Next == LockerNext \/ HolderNext \/ NamedStateNext

Spec == Init /\ [][Next]_vars

\* The three components share no state: each is also checked on its own,
\* with the other two left in one initial state.
InitLocker == LockerInit /\ HolderInit(1) /\ NamedStateInit(3)
InitHolder == LockerInit /\ (\E v \in Values : HolderInit(v)) /\ NamedStateInit(3)
InitNamedState == LockerInit /\ HolderInit(1) /\ (\E s \in Seeds : NamedStateInit(s))

LockerSpec == InitLocker /\ [][LockerNext]_vars
HolderSpec == InitHolder /\ [][HolderNext]_vars
NamedStateSpec == InitNamedState /\ [][NamedStateNext]_vars

\* Fair scheduling: a task whose future was completed is eventually polled
\* again, and a task that holds a Locker eventually drops it.  Nothing
\* forces a task to call get_locker.
FairLockerSpec ==
    /\ LockerSpec
    /\ \A t \in Tasks : WF_vars(locker_resume(t)) /\ WF_vars(locker_drop(t))

\* The same for ObjectHolder: a delivered waiter is eventually polled and
\* every ObjectGuard is eventually dropped.
FairHolderSpec ==
    /\ HolderSpec
    /\ \A t \in Tasks : WF_vars(holder_resume(t)) /\ WF_vars(guard_drop(t))

\* ObjectHolder and LockerManager in one specification.  They share no
\* state, so their free product adds size and no behaviour of either; here
\* they take turns: the locker operations run while the cell is at rest,
\* the cell operations run while the locker has just handed a name to a
\* waiter and every other task is idle.  Each component still goes through
\* all of its own states and steps.
HolderAtRest == waiter_list = <<>> /\ \A t \in Tasks : oh_pc[t] = "idle"

LockerHandedOver ==
    \E w \in Tasks :
        /\ lk_pc[w] = "waiting" /\ lk_done[w]
        /\ \A u \in Tasks \ {w} : lk_pc[u] = "idle"

BothNext ==
    \/ \E t \in Tasks, n \in Names : HolderAtRest /\ get_locker(t, n)
    \/ \E t \in Tasks : HolderAtRest /\ locker_resume(t)
    \/ \E t \in Tasks : HolderAtRest /\ locker_drop(t)
    \/ \E t \in Tasks : LockerHandedOver /\ get(t)
    \/ \E t \in Tasks : LockerHandedOver /\ holder_resume(t)
    \/ \E t \in Tasks : LockerHandedOver /\ guard_drop(t)
    \/ \E t \in Tasks, v \in Values : LockerHandedOver /\ deref_mut(t, v)

InitBoth == InitHolder

BothSpec == InitBoth /\ [][BothNext]_vars

\* Suspended tasks may be discarded (cancellation).
CancelLockerNext ==
    \/ \E t \in Tasks, n \in Names : get_locker(t, n)
    \/ \E t \in Tasks : locker_resume(t)
    \/ \E t \in Tasks : locker_drop(t)
    \/ \E t \in Tasks : locker_abandon(t)

CancelLockerSpec == InitLocker /\ [][CancelLockerNext]_vars

CancelHolderNext ==
    \/ \E t \in Tasks : get(t)
    \/ \E t \in Tasks : holder_resume(t)
    \/ \E t \in Tasks : guard_drop(t)
    \/ \E t \in Tasks, v \in Values : deref_mut(t, v)
    \/ \E t \in Tasks : holder_abandon(t)

CancelHolderSpec == InitHolder /\ [][CancelHolderNext]_vars

\* The registry may be torn down while guards are alive.
TeardownNext ==
    \/ \E g \in GuardSlots, n \in Names : new_state(g, n)
    \/ \E g \in GuardSlots : state_guard_drop(g)
    \/ holder_teardown

TeardownSpec == InitNamedState /\ [][TeardownNext]_vars

\* The public operations of object_locker.rs, GuardObject included.
GuardObjectNext ==
    \/ \E t \in Tasks, n \in Names : get_locker(t, n)
    \/ \E t \in Tasks : locker_resume(t)
    \/ \E t \in Tasks : locker_drop(t)
    \/ \E t \in Tasks, v \in Payloads : guard_object_new(t, v)
    \/ \E t \in Tasks, v \in Payloads : guard_object_deref_mut(t, v)
    \/ \E t \in Tasks : release_locker(t)

GuardObjectSpec == InitLocker /\ [][GuardObjectNext]_vars

\* LockerManager::unlock called directly, besides the public operations.
UnlockCallNext ==
    \/ \E t \in Tasks, n \in Names : get_locker(t, n)
    \/ \E t \in Tasks : locker_resume(t)
    \/ \E t \in Tasks : locker_drop(t)
    \/ \E n \in Names : unlock_call(n)

UnlockCallSpec == InitLocker /\ [][UnlockCallNext]_vars

\* ============================================ object_locker.rs: claims
\* Task t owns name L: it holds a Locker for L, or unlock has completed its
\* future and it has not resumed yet.
Owns(t, L) ==
    /\ lk_id[t] = L
    /\ \/ lk_pc[t] = "owner"
       \/ lk_pc[t] = "waiting" /\ lk_done[t]

\* Task t is suspended in get_locker(L) and has not been handed L.
Queued(t, L) == lk_id[t] = L /\ lk_pc[t] = "waiting" /\ ~lk_done[t]

AtMostOneOwner == \A L \in Names : Cardinality({t \in Tasks : Owns(t, L)}) <= 1

NoReturnWhileOwned ==
    \A t \in Tasks, u \in Tasks, L \in Names :
        (u # t /\ Owns(u, L) /\ lk_pc[t] # "owner")
            => ~(lk_pc'[t] = "owner" /\ lk_id'[t] = L)

\* C1: for every name L at most one task owns L in every reachable state,
\* and no step makes a task return from get_locker(L) while another task
\* owns L.
C1_MutualExclusion == []AtMostOneOwner /\ [][NoReturnWhileOwned]_vars

\* C1 witness: L was handed over by unlock to a waiter that has not resumed
\* yet while another task is still queued for L.
C1_Witness ==
    \E L \in Names, t \in Tasks, u \in Tasks :
        Owns(t, L) /\ lk_pc[t] = "waiting" /\ Queued(u, L)

\* C2: whenever a step completes the future of a waiter w for L, w is the
\* head of L's pending_list and the earliest-pushed waiter for L that was
\* not granted yet; pending_list always lists the waiters in push order.
C2_FifoGrant ==
    /\ [](\A L \in DOMAIN locker_map : locker_map[L].pending_list = lk_arrival[L])
    /\ [][\A w \in Tasks :
            (~lk_done[w] /\ lk_done'[w]) =>
                /\ w = Head(lk_arrival[lk_id[w]])
                /\ w = Head(locker_map[lk_id[w]].pending_list)
                /\ locker_map'[lk_id[w]].pending_list = Tail(locker_map[lk_id[w]].pending_list)]_vars

\* C2 witness: a waiter was handed L while two more waiters are queued.
C2_Witness ==
    \E L \in Names, w \in Tasks :
        Owns(w, L) /\ lk_pc[w] = "waiting" /\ Len(lk_arrival[L]) >= 2

\* A step in which the owner t of L drops its Locker.
Drops(t, L) == lk_pc[t] = "owner" /\ lk_id[t] = L /\ lk_pc'[t] = "idle"

\* A step in which task c calls get_locker(L).
Requests(c, L) == lk_pc[c] = "idle" /\ lk_id'[c] = L

\* C8: an unlock(L) that finds waiters leaves is_locked true and hands L to
\* the head waiter; a get_locker(L) issued while L is owned (also by a woken
\* waiter that has not resumed) is enqueued; and a request is granted on the
\* spot only when no earlier request for L is still waiting.
C8_NoBarging ==
    [][\A L \in Names :
        /\ \A t \in Tasks :
              (Drops(t, L) /\ Len(locker_map[L].pending_list) > 0) =>
                  /\ locker_map'[L].is_locked
                  /\ \E w \in Tasks : w = Head(locker_map[L].pending_list) /\ Owns(w, L)'
        /\ \A c \in Tasks :
              (Requests(c, L) /\ \E b \in Tasks : Owns(b, L)) =>
                  /\ Queued(c, L)'
                  /\ locker_map'[L].pending_list = Append(locker_map[L].pending_list, c)
        /\ \A c \in Tasks :
              (Requests(c, L) /\ lk_pc'[c] = "owner") =>
                  \A b \in Tasks : lk_id[b] # L]_vars

\* C8 witness: b was woken by unlock(L) and has not resumed, is_locked is
\* still true, and a requester c sits in the queue instead of owning L.
C8_Witness ==
    \E L \in DOMAIN locker_map, b \in Tasks, c \in Tasks :
        /\ lk_id[b] = L /\ lk_pc[b] = "waiting" /\ lk_done[b]
        /\ locker_map[L].is_locked
        /\ locker_map[L].pending_list = <<c>>
        /\ \A t \in Tasks \ {b, c} : lk_pc[t] = "idle"

\* C9: under fair scheduling every task suspended in get_locker eventually
\* returns with the Locker.
C9_LockerLiveness ==
    \A t \in Tasks : (lk_pc[t] = "waiting") ~> (lk_pc[t] = "owner")

\* C9 witness: every other task is queued behind the owner of a name.
C9_Witness ==
    \E L \in DOMAIN locker_map :
        /\ Len(locker_map[L].pending_list) = NumTasks - 1
        /\ \E t \in Tasks : lk_pc[t] = "owner" /\ lk_id[t] = L

\* ============================================ object_holder.rs: claims
\* The tasks that hold an ObjectGuard with the value in it.
GuardHolders == {t \in Tasks : guard_obj[t] # None}

\* The tasks whose future holds a delivered value they have not taken yet.
Delivered == {t \in Tasks : fut_val[t] # None}

\* C3: at most one ObjectGuard holds the value, and the value never rests
\* in the cell while a guard holds it.
C3_Exclusivity ==
    /\ Cardinality(GuardHolders) <= 1
    /\ ~(state_obj # None /\ GuardHolders # {})

\* C3 witness: a task holds the guard it was handed through its waiter
\* (the slot is empty) while other tasks are queued.
C3_Witness ==
    /\ Cardinality(GuardHolders) = 1
    /\ state_obj = None
    /\ Len(waiter_list) >= 2

\* The number of places that hold a value: the resting slot, the guards
\* and the completed futures.
Places ==
    (IF state_obj # None THEN 1 ELSE 0)
        + Cardinality(GuardHolders) + Cardinality(Delivered)

\* C4: the value is in exactly one place (resting, in one guard, or
\* delivered to one waiter), and it is the value last stored.
C4_Conservation ==
    /\ Places = 1
    /\ state_obj \in {None, oh_value}
    /\ \A t \in Tasks : guard_obj[t] \in {None, oh_value} /\ fut_val[t] \in {None, oh_value}

\* C4 witness: the value is in flight to a waiter, neither resting nor in
\* a guard, while another waiter is queued.
C4_Witness ==
    /\ waiter_list # <<>>
    /\ \E t \in Delivered : fut_val[t] = oh_value

\* C5: a guard released while waiter_list is non-empty delivers the value
\* to the last waiter of the list (the most recently pushed one still
\* waiting), removes that waiter and leaves the resting slot empty;
\* waiter_list always lists the waiters in push order.
C5_LifoHandoff ==
    /\ [](waiter_list = oh_arrival)
    /\ [][\A t \in Tasks :
            (oh_pc[t] = "guard" /\ oh_pc'[t] = "idle" /\ Len(waiter_list) > 0) =>
                /\ state_obj' = None
                /\ waiter_list' = Front(waiter_list)
                /\ \E w \in Tasks :
                      /\ w = Last(oh_arrival)
                      /\ fut_val[w] = None
                      /\ fut_val'[w] = guard_obj[t]
                      /\ \A u \in Tasks \ {w} : fut_val'[u] = fut_val[u]]_vars

\* C5 witness: a release delivered the value to a waiter while two other
\* waiters stay in the list and no guard exists.
C5_Witness ==
    /\ Delivered # {}
    /\ Len(waiter_list) >= 2
    /\ \A t \in Tasks : oh_pc[t] # "guard"

\* C10: under fair scheduling every task suspended in get() eventually
\* returns with a guard.
C10_HolderLiveness ==
    \A t \in Tasks : (oh_pc[t] = "waiting") ~> (oh_pc[t] = "guard")

\* ============================================== named_state.rs: claims
\* The slots whose NamedStateGuard is alive.
LiveGuards == {g \in GuardSlots : ns_guard[g] # NoGuard}

\* C6: has_state(n) is true exactly when some NamedStateGuard created for
\* n has not been dropped.
C6_HeldStatus ==
    \A n \in Names : has_state(n) <=> (\E g \in LiveGuards : ns_guard[g].name = n)

\* C6 witness: n was held and every hold on it was released, while another
\* name is still held.
C6_Witness ==
    \E n \in DOMAIN names, m \in DOMAIN names :
        /\ names[n] = <<>> /\ ~has_state(n)
        /\ has_state(m)
        /\ id_seq >= ns_seed + 3

\* A step in which the guard in slot g is dropped.
GuardDropped(g) == ns_guard[g] # NoGuard /\ ns_guard'[g] = NoGuard

\* C7: dropping the guard (n, i) removes exactly the one id i from names[n]
\* and changes nothing else: the other ids of n keep their order, every
\* other name keeps its list, every other live guard keeps its id in its
\* name's list; live guards never share an id, all ids were allocated below
\* id_seq.
C7_ReleaseIsolation ==
    /\ [](\A g \in LiveGuards :
            /\ ns_guard[g].id < id_seq
            /\ \A h \in LiveGuards \ {g} : ns_guard[h].id # ns_guard[g].id)
    /\ [][\A g \in GuardSlots :
            GuardDropped(g) =>
                LET n == ns_guard[g].name
                    i == ns_guard[g].id
                IN  /\ DOMAIN names' = DOMAIN names
                    /\ Len(names'[n]) = Len(names[n]) - 1
                    /\ names'[n] = SelectSeq(names[n], LAMBDA x : x # i)
                    /\ \A m \in DOMAIN names \ {n} : names'[m] = names[m]
                    /\ \A h \in LiveGuards \ {g} :
                          /\ ns_guard'[h] = ns_guard[h]
                          /\ \E k \in 1..Len(names'[ns_guard[h].name]) :
                                names'[ns_guard[h].name][k] = ns_guard[h].id]_vars

\* C7 witness: the first of two holds on n was released; the second hold
\* on n and a hold on another name are still registered.
C7_Witness ==
    \E n \in DOMAIN names, m \in DOMAIN names :
        /\ n # m
        /\ names[n] = <<ns_seed + 1>>
        /\ names[m] = <<ns_seed + 2>>
        /\ Cardinality(LiveGuards) = 2

\* C11: a direct unlock(n) for a name with no table entry ends in the
\* failed assertion, never in a silent return, and leaves the table (its
\* keys and every entry) and the futures as they were.
C11_UnlockUnknown ==
    /\ [](lk_raw # {} => lk_failed)
    /\ [][\A n \in Names :
            (unlock_call(n) /\ n \notin DOMAIN locker_map) =>
                /\ lk_failed'
                /\ locker_map' = locker_map
                /\ lk_done' = lk_done]_vars

\* C11 witness: the assertion fired for a name while the table holds an
\* entry for another name, locked with a waiter.
C11_Witness ==
    /\ lk_failed
    /\ lk_raw # {}
    /\ DOMAIN locker_map # Names
    /\ \E L \in DOMAIN locker_map :
          locker_map[L].is_locked /\ locker_map[L].pending_list # <<>>

\* C12: while a task has a GuardObject the name of its Locker is locked
\* and owned by that task alone; release_locker returns the payload as it
\* stands and performs exactly one unlock: is_locked becomes false when the
\* queue is empty, else the head waiter is completed and removed and
\* is_locked stays true; no other entry changes.
C12_GuardObjectCoupling ==
    /\ [](\A t \in Tasks :
            go_obj[t] # None =>
                /\ lk_pc[t] = "owner"
                /\ lk_id[t] \in DOMAIN locker_map
                /\ locker_map[lk_id[t]].is_locked
                /\ \A u \in Tasks \ {t} : ~Owns(u, lk_id[t]))
    /\ [][\A t \in Tasks :
            release_locker(t) =>
                LET L == lk_id[t]
                    q == locker_map[L].pending_list
                IN  /\ go_ret' = go_obj[t]
                    /\ DOMAIN locker_map' = DOMAIN locker_map
                    /\ \A M \in DOMAIN locker_map \ {L} : locker_map'[M] = locker_map[M]
                    /\ IF q = <<>>
                       THEN /\ locker_map'[L] = [is_locked |-> FALSE, pending_list |-> <<>>]
                            /\ lk_done' = lk_done
                       ELSE /\ locker_map'[L] = [is_locked |-> TRUE, pending_list |-> Tail(q)]
                            /\ lk_done' = [lk_done EXCEPT ![Head(q)] = TRUE]
                            /\ ~lk_done[Head(q)]]_vars

\* C12 witness: release_locker returned an overwritten payload, and a task
\* holds a GuardObject while another task is queued for its name.
C12_Witness ==
    /\ go_ret = 2
    /\ \E t \in Tasks, u \in Tasks :
          go_obj[t] = 1 /\ Queued(u, lk_id[t])

\* The ids registered in names that belong to no live guard.
OrphanIds ==
    {i \in ns_seed..(id_seq - 1) :
        /\ \E n \in DOMAIN names : \E k \in 1..Len(names[n]) : names[n][k] = i
        /\ \A g \in LiveGuards : ns_guard[g].id # i}

\* C13: a guard dropped after the registry was torn down changes nothing
\* but the guard itself; a guard dropped while the registry is alive
\* removes its id from the list of its name.
C13_WeakBackReference ==
    [][\A g \in GuardSlots :
        GuardDropped(g) =>
            LET n == ns_guard[g].name
                i == ns_guard[g].id
            IN  /\ \A h \in GuardSlots \ {g} : ns_guard'[h] = ns_guard[h]
                /\ id_seq' = id_seq /\ ns_alive' = ns_alive
                /\ IF ns_alive
                   THEN /\ \E k \in 1..Len(names[n]) : names[n][k] = i
                        /\ names'[n] = SelectSeq(names[n], LAMBDA x : x # i)
                   ELSE names' = names]_vars

\* C13 witness: the registry is gone and a guard was dropped after that:
\* its id is still in the list, another guard is still alive.
C13_Witness ==
    /\ ~ns_alive
    /\ OrphanIds # {}
    /\ LiveGuards # {}

\* C14: for every name with an entry, is_locked is true whenever a task
\* owns the name (has a Locker, or was woken and has not resumed) and
\* whenever pending_list is non-empty; an owned name has an entry.
C14_EntryInvariant ==
    /\ \A L \in Names : (\E t \in Tasks : Owns(t, L)) => L \in DOMAIN locker_map
    /\ \A L \in DOMAIN locker_map :
          /\ (\E t \in Tasks : Owns(t, L)) => locker_map[L].is_locked
          /\ locker_map[L].pending_list # <<>> => locker_map[L].is_locked

\* C14 witness: one entry is unlocked again with an empty queue, another
\* is locked for a woken waiter with more waiters queued.
C14_Witness ==
    \E L \in DOMAIN locker_map, M \in DOMAIN locker_map :
        /\ ~locker_map[L].is_locked /\ locker_map[L].pending_list = <<>>
        /\ locker_map[M].pending_list # <<>>
        /\ \E t \in Tasks : Owns(t, M) /\ lk_pc[t] = "waiting"

\* C15: the value rests in the cell only while waiter_list is empty.
C15_NoWaiterWhileResting == state_obj # None => waiter_list = <<>>

\* C15 witness: a release found waiters: the value went to one of them,
\* the slot stayed empty and the other waiters are still queued.
C15_Witness ==
    /\ Cardinality(Delivered) = 1
    /\ Len(waiter_list) = NumTasks - 2
    /\ state_obj = None

\* C18: get_locker(A) returns at once, with A's entry locked, whenever A
\* has no entry or an unlocked one, whatever the other entries hold; and a
\* get_locker(A) or a Locker drop for A leaves every other name as it was
\* (absent, or present with the same entry).
C18_PerNameIndependence ==
    [][\A A \in Names, t \in Tasks :
        /\ (Requests(t, A) /\ (A \notin DOMAIN locker_map \/ ~locker_map[A].is_locked)) =>
              /\ lk_pc'[t] = "owner"
              /\ locker_map'[A].is_locked
              /\ locker_map'[A].pending_list = <<>>
        /\ (Requests(t, A) \/ Drops(t, A)) =>
              \A B \in Names \ {A} :
                  /\ (B \in DOMAIN locker_map') <=> (B \in DOMAIN locker_map)
                  /\ B \in DOMAIN locker_map => locker_map'[B] = locker_map[B]]_vars

\* C18 witness: a task owns A, taken from an unlocked entry at once, while
\* B is locked with every other task behind its owner.
C18_Witness ==
    \E A \in DOMAIN locker_map, B \in DOMAIN locker_map, t \in Tasks :
        /\ A # B
        /\ lk_pc[t] = "owner" /\ lk_id[t] = A
        /\ locker_map[A].pending_list = <<>>
        /\ Len(locker_map[B].pending_list) = NumTasks - 2
        /\ \E u \in Tasks : lk_pc[u] = "owner" /\ lk_id[u] = B

\* C19: with the public operations only (get_locker, Locker drop,
\* GuardObject), the assertion in unlock never fires: every Locker's name
\* has an entry, and no step removes an entry.
C19_AssertUnreachable ==
    /\ [](~lk_failed)
    /\ [](\A t \in Tasks : lk_pc[t] # "idle" => lk_id[t] \in DOMAIN locker_map)
    /\ [][DOMAIN locker_map \subseteq DOMAIN locker_map']_vars

\* C19 witness: unlock has run from release_locker and for every name,
\* and every name is unlocked again.
C19_Witness ==
    /\ go_ret # None
    /\ DOMAIN locker_map = Names
    /\ \A L \in Names : ~locker_map[L].is_locked

\* set_complete(obj) was called on the future of an abandoned task: the
\* value went to a waiter that will never take it.
ValueLost == \E t \in Tasks : oh_pc[t] = "abandoned" /\ fut_val[t] # None

\* C16: a release that pops the handle of an abandoned waiter delivers the
\* value to it; from then on the value neither rests nor is in a guard or
\* on its way to a live waiter, this never changes, and every get() made
\* in that situation suspends.
C16_CancelLosesValue ==
    /\ [](ValueLost =>
            /\ state_obj = None
            /\ GuardHolders = {}
            /\ \A u \in Tasks : oh_pc[u] = "waiting" => fut_val[u] = None)
    /\ [][/\ \A t \in Tasks :
               (/\ oh_pc[t] = "guard" /\ oh_pc'[t] = "idle"
                /\ waiter_list # <<>>
                /\ oh_pc[Last(waiter_list)] = "abandoned") =>
                   /\ fut_val'[Last(waiter_list)] = guard_obj[t]
                   /\ waiter_list' = Front(waiter_list)
                   /\ ValueLost'
          /\ ValueLost => ValueLost'
          /\ \A u \in Tasks :
               (ValueLost /\ oh_pc[u] = "idle" /\ oh_pc'[u] # "idle") =>
                   oh_pc'[u] = "waiting"]_vars

\* C16 witness: the value was delivered to an abandoned waiter and two
\* live tasks are suspended in get().
C16_Witness ==
    /\ ValueLost
    /\ Cardinality({u \in Tasks : oh_pc[u] = "waiting"}) >= 2

\* set_complete(()) was called on the future of an abandoned task for L:
\* L was handed to a waiter that will never build a Locker.
LockStuck(L) == \E t \in Tasks : lk_pc[t] = "abandoned" /\ lk_id[t] = L /\ lk_done[t]

\* C17: an unlock(L) that pops the handle of an abandoned waiter completes
\* it and leaves is_locked true with no owner of L; from then on L stays
\* locked without an owner, and every get_locker(L) is enqueued.
C17_CancelLeavesLocked ==
    /\ [](\A L \in Names :
            LockStuck(L) =>
                /\ locker_map[L].is_locked
                /\ \A u \in Tasks : ~Owns(u, L))
    /\ [][\A L \in Names :
            /\ \A t \in Tasks :
                 (/\ Drops(t, L)
                  /\ locker_map[L].pending_list # <<>>
                  /\ lk_pc[Head(locker_map[L].pending_list)] = "abandoned") =>
                     /\ lk_done'[Head(locker_map[L].pending_list)]
                     /\ locker_map'[L].pending_list = Tail(locker_map[L].pending_list)
                     /\ LockStuck(L)'
            /\ LockStuck(L) => LockStuck(L)'
            /\ \A c \in Tasks :
                 (LockStuck(L) /\ Requests(c, L)) => Queued(c, L)']_vars

\* C17 witness: L was handed to an abandoned waiter and two live tasks are
\* queued for L.
C17_Witness ==
    \E L \in Names :
        /\ LockStuck(L)
        /\ Cardinality({u \in Tasks : Queued(u, L)}) >= 2

\* The elements of a sequence, and whether it lists no element twice.
Elems(q) == {q[k] : k \in 1..Len(q)}
NoDup(q) == Cardinality(Elems(q)) = Len(q)

\* The waiters of pending_list for name L (none when L has no entry).
Pending(L) == IF L \in DOMAIN locker_map THEN Elems(locker_map[L].pending_list) ELSE {}

\* C20: in LockerManager and in ObjectHolder a waiter handle sits in its
\* queue at most once and only while its task is suspended and its future
\* is not completed; a step completes at most one future, takes exactly
\* that waiter out of its queue in the same step, and takes no waiter out
\* of a queue without completing it; a suspending call pushes its handle
\* once.  Hence no future is completed twice.
C20_SingleResolution ==
    /\ [](/\ \A L \in DOMAIN locker_map :
               /\ NoDup(locker_map[L].pending_list)
               /\ \A w \in Pending(L) : Queued(w, L)
          /\ NoDup(waiter_list)
          /\ \A w \in Elems(waiter_list) : oh_pc[w] = "waiting" /\ fut_val[w] = None)
    /\ [][/\ Cardinality({w \in Tasks : ~lk_done[w] /\ lk_done'[w]}) <= 1
          /\ \A w \in Tasks, L \in Names :
               /\ (~lk_done[w] /\ lk_done'[w] /\ lk_id[w] = L) =>
                     (w \in Pending(L) /\ w \notin Pending(L)')
               /\ (w \in Pending(L) /\ w \notin Pending(L)') =>
                     (~lk_done[w] /\ lk_done'[w])
               /\ (w \notin Pending(L) /\ w \in Pending(L)') =>
                     (Requests(w, L) /\ locker_map'[L].pending_list = Append(locker_map[L].pending_list, w))
          /\ Cardinality({w \in Tasks : fut_val[w] = None /\ fut_val'[w] # None}) <= 1
          /\ \A w \in Tasks :
               /\ (fut_val[w] = None /\ fut_val'[w] # None) =>
                     (w \in Elems(waiter_list) /\ w \notin Elems(waiter_list'))
               /\ (w \in Elems(waiter_list) /\ w \notin Elems(waiter_list')) =>
                     (fut_val[w] = None /\ fut_val'[w] # None)
               /\ (w \notin Elems(waiter_list) /\ w \in Elems(waiter_list')) =>
                     (oh_pc[w] = "idle" /\ waiter_list' = Append(waiter_list, w))]_vars

\* C20 witness: unlock completed the future of a waiter that has not
\* resumed, and release delivered the value to a waiter while two more
\* waiters are queued.
C20_Witness ==
    /\ \E w \in Tasks : lk_pc[w] = "waiting" /\ lk_done[w]
    /\ Delivered # {}
    /\ Len(waiter_list) >= 2

====
